---- MODULE Spec2Model ----
(***************************************************************************)
(* Y-register liveness tracer for 6502 assembly (tools/liveness.py).       *)
(*                                                                         *)
(* Text is modelled as a tuple of one-character strings, so that the       *)
(* addressing-mode pattern, operand stripping and the textual label        *)
(* search are computed character by character as the code does.  Python    *)
(* list positions are kept 0-based: position idx is instructions[idx + 1]. *)
(***************************************************************************)
EXTENDS Integers, Sequences, FiniteSets, TLC

VARIABLES
    instructions,  \* list of (line_num, label, mnemonic, operand)
    label_idx,     \* dict label -> position
    start_idx,     \* trace_y_liveness argument
    max_depth,     \* trace_y_liveness argument
    visited,       \* trace_y_liveness local
    queue,         \* trace_y_liveness local: list of (idx, path)
    results,       \* trace_y_liveness local
    pc,            \* position in trace_y_liveness: "idle", "loop", "done"
    last,          \* history: the item dequeued by the latest loop iteration
    targets,       \* main: sys.argv[2:]
    mpc,           \* position in main
    t,             \* main: index of the current target in targets (1-based)
    callers,       \* main: find_callers result for the current target
    c,             \* main: index of the current caller in callers (1-based)
    output,        \* main: what has been printed
    calls          \* history: the trace_y_liveness invocations main has made

vars == <<instructions, label_idx, start_idx, max_depth, visited, queue, results,
          pc, last, targets, mpc, t, callers, c, output, calls>>

traceVars == <<start_idx, max_depth, visited, queue, results, pc, last>>
mainVars == <<targets, mpc, t, callers, c, output, calls>>

----------------------------------------------------------------------------
(* Bounds of the model *)

MaxLen == 3
MaxDepth == 1
MainMaxLen == 3
MaxTargets == 2

(* max_depth=50, the default of trace_y_liveness *)
DefaultMaxDepth == 50

----------------------------------------------------------------------------
(* Python values *)

None == <<"None">>
NoMnemonic == "None"

Truthy(x) == x # None /\ x # <<>>

WordChars == {"s", "t", "u", "k", "i", "p", "Y", "y", "X", "0", "1", "5"}

IsSpace(ch) == ch = " "

RECURSIVE LStrip(_)
LStrip(s) == IF s # <<>> /\ IsSpace(Head(s)) THEN LStrip(Tail(s)) ELSE s

RECURSIVE RStrip(_)
RStrip(s) ==
    IF s # <<>> /\ IsSpace(s[Len(s)]) THEN RStrip(SubSeq(s, 1, Len(s) - 1)) ELSE s

Strip(s) == RStrip(LStrip(s))

(* str.startswith *)
StartsWith(s, p) == Len(s) >= Len(p) /\ SubSeq(s, 1, Len(p)) = p

(* the Python test "p in s" on strings *)
Contains(s, p) ==
    \E i \in 1..(Len(s) - Len(p) + 1) : SubSeq(s, i, i + Len(p) - 1) = p

EmptyDict == [k \in {} |-> 0]

DictSet(d, k, v) == [x \in (DOMAIN d) \cup {k} |-> IF x = k THEN v ELSE d[x]]

----------------------------------------------------------------------------
(* Classifier *)

UpperY(ch) == ch = "Y" \/ ch = "y"

(* Y_ADDR_PATTERNS.search: \(.*\),Y  or  ,Y\b  ignoring case *)
Y_ADDR_PATTERNS(s) ==
    \/ \E i \in 1..Len(s) : \E j \in (i + 1)..(Len(s) - 2) :
          /\ s[i] = "("
          /\ s[j] = ")"
          /\ s[j + 1] = ","
          /\ UpperY(s[j + 2])
    \/ \E i \in 1..(Len(s) - 1) :
          /\ s[i] = ","
          /\ UpperY(s[i + 1])
          /\ (i + 1 = Len(s) \/ s[i + 2] \notin WordChars)

(* reads_y without the addressing-mode test *)
reads_y_MnemonicOnly(mnemonic, operand) ==
    IF mnemonic \in {"STY", "TYA", "CPY", "PHY"} THEN TRUE ELSE FALSE

reads_y(mnemonic, operand) ==
    IF mnemonic \in {"STY", "TYA", "CPY", "PHY"} THEN TRUE
    ELSE IF Y_ADDR_PATTERNS(operand) THEN TRUE
    ELSE FALSE

(* kills_y without TAY *)
kills_y_NoTAY(mnemonic, operand) ==
    IF mnemonic \in {"LDY", "PLY"} THEN TRUE ELSE FALSE

kills_y(mnemonic, operand) ==
    IF mnemonic \in {"LDY", "PLY", "TAY"} THEN TRUE ELSE FALSE

BRANCHES == {"BEQ", "BNE", "BCC", "BCS", "BMI", "BPL", "BVS", "BVC", "BRA"}

is_branch(mnemonic) == mnemonic \in BRANCHES

get_branch_target(operand) ==
    LET op == Strip(operand)
    IN IF StartsWith(op, <<"(">>) THEN None ELSE op

----------------------------------------------------------------------------
(* Control-flow index *)

RECURSIVE build_label_index_upto(_, _)
build_label_index_upto(ins, n) ==
    IF n = 0 THEN EmptyDict
    ELSE LET idx == build_label_index_upto(ins, n - 1)
         IN IF Truthy(ins[n].label) THEN DictSet(idx, ins[n].label, n - 1) ELSE idx

(* An index in which the first definition of a label wins *)
build_label_index_FirstWins(ins) ==
    LET idx == build_label_index_upto(ins, Len(ins))
    IN [l \in DOMAIN idx |->
           CHOOSE i \in 0..(Len(ins) - 1) :
               /\ ins[i + 1].label = l
               /\ \A j \in 0..(i - 1) : ins[j + 1].label # l]

build_label_index(ins) == build_label_index_upto(ins, Len(ins))

----------------------------------------------------------------------------
(* Liveness tracer: trace_y_liveness *)

(* step = f"L{line_num}:{mnemonic} {operand}" *)
Step(ins) == <<ins.line_num, ins.mnemonic, ins.operand>>

(* The strings appended to results, by the statement that formats them *)
DepthLimitLine(path) == [kind |-> "DEPTH LIMIT", path |-> path]
LiveLine(ins) ==
    [kind |-> "Y IS LIVE", mnemonic |-> ins.mnemonic, operand |-> ins.operand,
     line |-> ins.line_num]
LiveRWLine(ins) ==
    [kind |-> "Y IS LIVE (read+write)", mnemonic |-> ins.mnemonic,
     operand |-> ins.operand, line |-> ins.line_num]
PathLine(path) == [kind |-> "Path", path |-> path]
KilledLine(ins) ==
    [kind |-> "Y killed", mnemonic |-> ins.mnemonic, operand |-> ins.operand,
     line |-> ins.line_num]
RtsLine(ins) == [kind |-> "RTS", line |-> ins.line_num]
BrkLine(ins) == [kind |-> "BRK", line |-> ins.line_num]
JsrLine(ins) == [kind |-> "JSR", operand |-> ins.operand, line |-> ins.line_num]
JmpUnresolvedLine(ins) ==
    [kind |-> "JMP to unresolved target", operand |-> ins.operand,
     line |-> ins.line_num]

(* What one expansion does: res is appended to results, succ to queue *)
Outcome(res, succ) == [res |-> res, succ |-> succ]

(* target and target in label_idx *)
Resolves(target, lidx) == Truthy(target) /\ target \in DOMAIN lidx

(* A label-only line that adds a step to the path *)
ExpandLabelOnly_AddsStep(idx, path) ==
    Outcome(<<>>, << <<idx + 1, Append(path, <<idx + 1, NoMnemonic, None>>)>> >>)

ExpandLabelOnly(idx, path) == Outcome(<<>>, << <<idx + 1, path>> >>)

ExpandRead(ins, new_path) ==
    IF ~kills_y(ins.mnemonic, ins.operand)
    THEN Outcome(<<LiveLine(ins), PathLine(new_path)>>, <<>>)
    ELSE Outcome(<<LiveRWLine(ins), PathLine(new_path)>>, <<>>)

ExpandKill(ins) == Outcome(<<KilledLine(ins)>>, <<>>)

ExpandReturn(ins) == Outcome(<<RtsLine(ins)>>, <<>>)

ExpandBrk(ins) == Outcome(<<BrkLine(ins)>>, <<>>)

(* A JSR taken to clobber Y: the branch ends at the call *)
ExpandJsr_Clobbers(idx, ins, new_path) == Outcome(<<KilledLine(ins)>>, <<>>)

ExpandJsr(idx, ins, new_path) ==
    Outcome(<<JsrLine(ins)>>, << <<idx + 1, new_path>> >>)

ExpandJmp(ins, new_path, lidx) ==
    LET target == get_branch_target(ins.operand)
    IN IF Resolves(target, lidx)
       THEN Outcome(<<>>, << <<lidx[target], new_path>> >>)
       ELSE Outcome(<<JmpUnresolvedLine(ins)>>, <<>>)

(* A conditional branch that enqueues its taken side first *)
ExpandBranch_TakenFirst(idx, ins, new_path, lidx) ==
    LET target == get_branch_target(ins.operand)
    IN IF ins.mnemonic = "BRA"
       THEN IF Resolves(target, lidx)
            THEN Outcome(<<>>, << <<lidx[target], new_path>> >>)
            ELSE Outcome(<<>>, <<>>)
       ELSE IF Resolves(target, lidx)
            THEN Outcome(<<>>, << <<lidx[target], new_path>>, <<idx + 1, new_path>> >>)
            ELSE Outcome(<<>>, << <<idx + 1, new_path>> >>)

(* A conditional branch that follows its fall-through side only *)
ExpandBranch_FallThroughOnly(idx, ins, new_path, lidx) ==
    LET target == get_branch_target(ins.operand)
    IN IF ins.mnemonic = "BRA"
       THEN IF Resolves(target, lidx)
            THEN Outcome(<<>>, << <<lidx[target], new_path>> >>)
            ELSE Outcome(<<>>, <<>>)
       ELSE Outcome(<<>>, << <<idx + 1, new_path>> >>)

ExpandBranch(idx, ins, new_path, lidx) ==
    LET target == get_branch_target(ins.operand)
    IN IF ins.mnemonic = "BRA"
       THEN IF Resolves(target, lidx)
            THEN Outcome(<<>>, << <<lidx[target], new_path>> >>)
            ELSE Outcome(<<>>, <<>>)
       ELSE IF Resolves(target, lidx)
            THEN Outcome(<<>>, << <<idx + 1, new_path>>, <<lidx[target], new_path>> >>)
            ELSE Outcome(<<>>, << <<idx + 1, new_path>> >>)

(* A regular instruction that leaves a line of its path in results *)
ExpandRegular_Notes(idx, new_path) ==
    Outcome(<<PathLine(new_path)>>, << <<idx + 1, new_path>> >>)

ExpandRegular(idx, new_path) == Outcome(<<>>, << <<idx + 1, new_path>> >>)

(* The loop body from "line_num, label, mnemonic, operand = instructions[idx]" on *)
Expand(ins, idx, path, lidx) ==
    IF ins.mnemonic = NoMnemonic THEN ExpandLabelOnly(idx, path)
    ELSE LET new_path == Append(path, Step(ins))
         IN IF reads_y(ins.mnemonic, ins.operand) THEN ExpandRead(ins, new_path)
            ELSE IF kills_y(ins.mnemonic, ins.operand) THEN ExpandKill(ins)
            ELSE IF ins.mnemonic \in {"RTS", "RTI"} THEN ExpandReturn(ins)
            ELSE IF ins.mnemonic = "BRK" THEN ExpandBrk(ins)
            ELSE IF ins.mnemonic = "JSR" THEN ExpandJsr(idx, ins, new_path)
            ELSE IF ins.mnemonic = "JMP" THEN ExpandJmp(ins, new_path, lidx)
            ELSE IF is_branch(ins.mnemonic) THEN ExpandBranch(idx, ins, new_path, lidx)
            ELSE ExpandRegular(idx, new_path)

(* The head read without being removed *)
Pop0_Keep(q) == q

(* queue.pop(0): what is left of the queue *)
Pop0(q) == Tail(q)

(* The visited test alone, without the test against the length *)
Dropped_NoBound(idx, seen, ins) == idx \in seen

(* idx in visited or idx >= len(instructions) *)
Dropped(idx, seen, ins) == IF idx \in seen THEN TRUE ELSE idx >= Len(ins)

(* A guard that lets one step more through *)
TooDeep_OffByOne(path, limit) == Len(path) > limit + 1

(* len(path) > max_depth *)
TooDeep(path, limit) == Len(path) > limit

NoLast == [idx |-> -1, path |-> <<>>, how |-> "none"]

(* The call with a visited set that outlives the call *)
TraceEntry_KeepVisited(start, depth) ==
    /\ start_idx' = start
    /\ max_depth' = depth
    /\ visited' = visited
    /\ queue' = << <<start, <<>>>> >>
    /\ results' = <<>>
    /\ pc' = "loop"
    /\ last' = NoLast

(* The first statements of trace_y_liveness *)
TraceEntry(start, depth) ==
    /\ start_idx' = start
    /\ max_depth' = depth
    /\ visited' = {}
    /\ queue' = << <<start, <<>>>> >>
    /\ results' = <<>>
    /\ pc' = "loop"
    /\ last' = NoLast

(* One iteration of "while queue:"; instructions[idx] outside the list raises
   IndexError, which nothing catches *)
TraceStep ==
    /\ pc = "loop"
    /\ queue # <<>>
    /\ LET idx == Head(queue)[1]
           path == Head(queue)[2]
           rest == Pop0(queue)
       IN IF Dropped(idx, visited, instructions)
          THEN /\ queue' = rest
               /\ last' = [idx |-> idx, path |-> path, how |-> "dropped"]
               /\ UNCHANGED <<visited, results, pc>>
          ELSE IF TooDeep(path, max_depth)
          THEN /\ queue' = rest
               /\ results' = Append(results, DepthLimitLine(path))
               /\ last' = [idx |-> idx, path |-> path, how |-> "depth"]
               /\ UNCHANGED <<visited, pc>>
          ELSE IF idx + 1 \notin DOMAIN instructions
          THEN /\ queue' = rest
               /\ visited' = visited \cup {idx}
               /\ pc' = "IndexError"
               /\ last' = [idx |-> idx, path |-> path, how |-> "fault"]
               /\ UNCHANGED results
          ELSE LET out == Expand(instructions[idx + 1], idx, path, label_idx)
               IN /\ visited' = visited \cup {idx}
                  /\ queue' = rest \o out.succ
                  /\ results' = results \o out.res
                  /\ last' = [idx |-> idx, path |-> path, how |-> "expanded"]
                  /\ UNCHANGED pc
    /\ UNCHANGED <<instructions, label_idx, start_idx, max_depth>>
    /\ UNCHANGED mainVars

(* The loop ends on an empty queue: return results *)
TraceReturn ==
    /\ pc = "loop"
    /\ queue = <<>>
    /\ pc' = "done"
    /\ UNCHANGED <<instructions, label_idx, start_idx, max_depth, visited, queue,
                   results, last>>
    /\ UNCHANGED mainVars

----------------------------------------------------------------------------
(* Reference locator and driver: find_callers, main *)

RECURSIVE find_callers_upto(_, _, _)
find_callers_upto(ins, target_label, n) ==
    IF n = 0 THEN <<>>
    ELSE LET found == find_callers_upto(ins, target_label, n - 1)
             r == ins[n]
         IN IF /\ r.mnemonic # NoMnemonic
               /\ Truthy(r.operand)
               /\ Contains(r.operand, target_label)
            THEN IF r.mnemonic = "JSR"
                 THEN Append(found, <<"JSR", n - 1, r.line_num>>)
                 ELSE IF r.mnemonic \in BRANCHES \cup {"JMP"}
                 THEN Append(found, <<r.mnemonic, n - 1, r.line_num>>)
                 ELSE found
            ELSE found

find_callers(ins, target_label) == find_callers_upto(ins, target_label, Len(ins))

(* The lines main prints, by the statement that formats them *)
LoadedLine(n, labels) == [kind |-> "Loaded", instructions |-> n, labels |-> labels]
AnalyzingLine(target) == [kind |-> "Analyzing", target |-> target]
ErrorLine(target) == [kind |-> "ERROR: Label not found", target |-> target]
FoundLine(n, target) == [kind |-> "Found", references |-> n, target |-> target]
ReferenceLine(call_type, target, line_num) ==
    [kind |-> "reference", call_type |-> call_type, target |-> target,
     line |-> line_num]
TracingAfterLine(line_num) == [kind |-> "Tracing AFTER JSR return", line |-> line_num + 1]
BranchReferenceLine(call_type) == [kind |-> "Branch reference", call_type |-> call_type]
WithinLine(target) == [kind |-> "Tracing WITHIN", target |-> target]

(* if target not in label_idx: ERROR, continue (first loop) *)
UnknownTarget(target, lidx) == target \notin DOMAIN lidx

(* The second loop carried on without its own test of the target *)
SkipWithin_Never(target, lidx) == FALSE

(* if target not in label_idx: continue (second loop) *)
SkipWithin(target, lidx) == target \notin DOMAIN lidx

(* if call_type == 'BEQ' and instr[2] == 'BEQ': continue *)
SkippedReference(call_type, instr) == call_type = "BEQ" /\ instr.mnemonic = "BEQ"

(* The trace started at the JSR itself *)
ReturnPoint_AtCall(idx) == idx

(* trace_y_liveness(instructions, label_idx, idx + 1, ...) *)
ReturnPoint(idx) == idx + 1

(* for target in targets: ... callers = find_callers(instructions, target) *)
MainLoop1 ==
    /\ mpc = "loop1"
    /\ IF t > Len(targets)
       THEN /\ mpc' = "loop2"
            /\ t' = 1
            /\ UNCHANGED <<callers, c, output>>
       ELSE IF UnknownTarget(targets[t], label_idx)
       THEN /\ output' = output \o <<AnalyzingLine(targets[t]), ErrorLine(targets[t])>>
            /\ t' = t + 1
            /\ UNCHANGED <<mpc, callers, c>>
       ELSE /\ callers' = find_callers(instructions, targets[t])
            /\ c' = 1
            /\ output' = output \o <<AnalyzingLine(targets[t]),
                                      FoundLine(Len(callers'), targets[t])>>
            /\ mpc' = "callers"
            /\ UNCHANGED t
    /\ UNCHANGED <<instructions, label_idx, targets, calls>>
    /\ UNCHANGED traceVars

(* for call_type, idx, line_num in callers: ... *)
MainCallers ==
    /\ mpc = "callers"
    /\ IF c > Len(callers)
       THEN /\ mpc' = "loop1"
            /\ t' = t + 1
            /\ UNCHANGED <<c, output, calls>>
            /\ UNCHANGED traceVars
       ELSE LET call_type == callers[c][1]
                idx == callers[c][2]
                line_num == callers[c][3]
                instr == instructions[idx + 1]
            IN IF SkippedReference(call_type, instr)
               THEN /\ c' = c + 1
                    /\ UNCHANGED <<mpc, t, output, calls>>
                    /\ UNCHANGED traceVars
               ELSE IF call_type = "JSR"
               THEN /\ output' = output \o <<ReferenceLine(call_type, targets[t], line_num),
                                              TracingAfterLine(line_num)>>
                    /\ TraceEntry(ReturnPoint(idx), DefaultMaxDepth)
                    /\ calls' = Append(calls, [request |-> t, site |-> idx,
                                               start |-> ReturnPoint(idx),
                                               max_depth |-> DefaultMaxDepth,
                                               returned |-> FALSE,
                                               results |-> <<>>])
                    /\ mpc' = "trace1"
                    /\ UNCHANGED <<t, c>>
               ELSE /\ output' = output \o <<ReferenceLine(call_type, targets[t], line_num),
                                              BranchReferenceLine(call_type)>>
                    /\ c' = c + 1
                    /\ UNCHANGED <<mpc, t, calls>>
                    /\ UNCHANGED traceVars
    /\ UNCHANGED <<instructions, label_idx, targets, callers>>

(* for r in results: print(r), after a call-site trace *)
MainPrint1 ==
    /\ mpc = "trace1"
    /\ pc = "done"
    /\ output' = output \o results
    /\ c' = c + 1
    /\ mpc' = "callers"
    /\ pc' = "idle"
    /\ calls' = [calls EXCEPT ![Len(calls)].returned = TRUE,
                              ![Len(calls)].results = results]
    /\ UNCHANGED <<instructions, label_idx, start_idx, max_depth, visited, queue, results,
                   last, targets, t, callers>>

(* The second loop: start = label_idx[target], which raises KeyError for a
   label that is not in the index *)
MainLoop2 ==
    /\ mpc = "loop2"
    /\ IF t > Len(targets)
       THEN /\ mpc' = "done"
            /\ UNCHANGED <<t, output, calls>>
            /\ UNCHANGED traceVars
       ELSE IF SkipWithin(targets[t], label_idx)
       THEN /\ t' = t + 1
            /\ UNCHANGED <<mpc, output, calls>>
            /\ UNCHANGED traceVars
       ELSE IF targets[t] \notin DOMAIN label_idx
       THEN /\ mpc' = "KeyError"
            /\ output' = Append(output, WithinLine(targets[t]))
            /\ UNCHANGED <<t, calls>>
            /\ UNCHANGED traceVars
       ELSE /\ output' = Append(output, WithinLine(targets[t]))
            /\ TraceEntry(label_idx[targets[t]], DefaultMaxDepth)
            /\ calls' = Append(calls, [request |-> t, site |-> -1,
                                       start |-> label_idx[targets[t]],
                                       max_depth |-> DefaultMaxDepth,
                                       returned |-> FALSE,
                                       results |-> <<>>])
            /\ mpc' = "trace2"
            /\ UNCHANGED t
    /\ UNCHANGED <<instructions, label_idx, targets, callers, c>>

(* for r in results: print(r), after a within-routine trace *)
MainPrint2 ==
    /\ mpc = "trace2"
    /\ pc = "done"
    /\ output' = output \o results
    /\ t' = t + 1
    /\ mpc' = "loop2"
    /\ pc' = "idle"
    /\ calls' = [calls EXCEPT ![Len(calls)].returned = TRUE,
                              ![Len(calls)].results = results]
    /\ UNCHANGED <<instructions, label_idx, start_idx, max_depth, visited, queue, results,
                   last, targets, c, callers>>

----------------------------------------------------------------------------
(* Inputs: assembly records as load_asm produces them *)

Rec(label, mnemonic, operand) ==
    [label |-> label, mnemonic |-> mnemonic, operand |-> operand]

LabelS == <<"s">>
LabelT == <<"t">>
LabelU == <<"u">>

OpImm == <<"#", "1">>
OpZp == <<"$", "1">>
OpIndY == <<"(", "s", ")", ",", "Y">>
OpAbsY == <<"s", ",", "Y">>
OpAbsYLower == <<"s", ",", "y">>
OpAbsX == <<"s", ",", "X">>
OpAbsYt == <<"s", ",", "Y", "t">>
OpInd == <<"(", "t", ")">>

(* Records a program of up to MaxLen lines is made of *)
CorePool ==
    { Rec(LabelS, NoMnemonic, None),
      Rec(LabelT, "STY", OpZp),
      Rec(None, "LDA", OpImm),
      Rec(None, "LDY", OpImm),
      Rec(None, "RTS", <<>>),
      Rec(None, "JSR", LabelS),
      Rec(None, "JMP", LabelS),
      Rec(None, "BRA", LabelT),
      Rec(None, "BRA", LabelU),
      Rec(None, "BEQ", LabelS),
      Rec(None, "BNE", LabelT) }

(* Further records, each tried alone, and before and after every record of
   CorePool *)
ProbePool ==
    { Rec(None, "STY", OpZp),
      Rec(None, "TYA", <<>>),
      Rec(None, "CPY", OpImm),
      Rec(None, "PHY", <<>>),
      Rec(None, "INY", <<>>),
      Rec(None, "DEY", <<>>),
      Rec(None, "PLY", <<>>),
      Rec(None, "TAY", <<>>),
      Rec(None, "TXY", <<>>),
      Rec(None, "RTI", <<>>),
      Rec(None, "BRK", <<>>),
      Rec(None, "LDA", OpIndY),
      Rec(None, "STA", OpAbsY),
      Rec(None, "LDA", OpAbsYLower),
      Rec(None, "LDA", OpAbsX),
      Rec(None, "LDA", OpAbsYt),
      Rec(None, "LDY", OpAbsY),
      Rec(None, "JSR", OpAbsY),
      Rec(None, "JMP", OpInd),
      Rec(None, "JMP", LabelU),
      Rec(None, "BNE", LabelU),
      Rec(None, "BEQ", <<>>),
      Rec(None, "BCC", LabelS),
      Rec(None, "BCS", LabelT),
      Rec(None, "BMI", LabelS),
      Rec(None, "BPL", LabelT),
      Rec(None, "BVS", LabelS),
      Rec(None, "BVC", LabelT),
      Rec(LabelS, "BEQ", LabelS),
      Rec(LabelT, NoMnemonic, None) }

(* enumerate(f, 1): the record of line i carries line_num i *)
Numbered(recs) ==
    [i \in 1..Len(recs) |->
        [line_num |-> i, label |-> recs[i].label, mnemonic |-> recs[i].mnemonic,
         operand |-> recs[i].operand]]

SeqsUpTo(S, n) == UNION {[1..k -> S] : k \in 0..n}

(* A six-line file: a conditional branch over a load of Y to a label line
   followed by a store of Y *)
LabelSkip == <<"s", "k", "i", "p">>
OpImm5 == <<"#", "5">>
OpZp10 == <<"$", "1", "0">>

SkipProgram ==
    Numbered(<< Rec(None, "LDA", OpImm),
                Rec(None, "BEQ", LabelSkip),
                Rec(None, "LDY", OpImm5),
                Rec(LabelSkip, NoMnemonic, None),
                Rec(None, "STY", OpZp10),
                Rec(None, "RTS", <<>>) >>)

Programs ==
    { Numbered(p) : p \in SeqsUpTo(CorePool, MaxLen) }
    \cup { Numbered(<<e>>) : e \in ProbePool }
    \cup { Numbered(<<e, r>>) : e \in ProbePool, r \in CorePool }
    \cup { Numbered(<<r, e>>) : e \in ProbePool, r \in CorePool }
    \cup { SkipProgram }

DepthChoices == (0..MaxDepth) \cup {DefaultMaxDepth}

MainIdle ==
    /\ targets = <<>>
    /\ mpc = "none"
    /\ t = 0
    /\ callers = <<>>
    /\ c = 0
    /\ output = <<>>
    /\ calls = <<>>

(* A call trace_y_liveness(instructions, label_idx, start_idx, max_depth) *)
Init ==
    /\ instructions \in Programs
    /\ label_idx = build_label_index(instructions)
    /\ start_idx \in 0..Len(instructions)
    /\ max_depth \in DepthChoices
    /\ visited = {}
    /\ queue = << <<start_idx, <<>>>> >>
    /\ results = <<>>
    /\ pc = "loop"
    /\ last = NoLast
    /\ MainIdle

Next == TraceStep \/ TraceReturn

Spec == Init /\ [][Next]_vars

(* A sequential program takes its next step whenever it has one *)
FairSpec == Spec /\ WF_vars(Next)

----------------------------------------------------------------------------
(* A run of main on a loaded file *)

OpST == <<"s", "t">>

MainPool ==
    { Rec(LabelS, NoMnemonic, None),
      Rec(LabelS, "BEQ", LabelS),
      Rec(LabelT, "STY", OpZp),
      Rec(None, "JSR", LabelS),
      Rec(None, "JSR", OpST),
      Rec(None, "BNE", LabelS),
      Rec(None, "JMP", LabelS) }

MainPrograms == { Numbered(p) : p \in SeqsUpTo(MainPool, MainMaxLen) }

(* The labels asked for: s may be defined, u never is *)
TargetPool == {LabelS, LabelU}

TargetLists == UNION {[1..k -> TargetPool] : k \in 1..MaxTargets}

MainInit ==
    /\ instructions \in MainPrograms
    /\ label_idx = build_label_index(instructions)
    /\ targets \in TargetLists
    /\ start_idx = 0
    /\ max_depth = DefaultMaxDepth
    /\ visited = {}
    /\ queue = <<>>
    /\ results = <<>>
    /\ pc = "idle"
    /\ last = NoLast
    /\ mpc = "loop1"
    /\ t = 1
    /\ callers = <<>>
    /\ c = 1
    /\ output = <<LoadedLine(Len(instructions), Cardinality(DOMAIN label_idx))>>
    /\ calls = <<>>

MainNext ==
    \/ MainLoop1
    \/ MainCallers
    \/ MainPrint1
    \/ MainLoop2
    \/ MainPrint2
    \/ TraceStep
    \/ TraceReturn

SpecMain == MainInit /\ [][MainNext]_vars

(* A sequential program takes its next step whenever it has one *)
FairSpecMain == SpecMain /\ WF_vars(MainNext)

----------------------------------------------------------------------------
(* Vocabulary of the properties, stated on the records themselves *)

(* The operands of the pools written in a Y-indexed form *)
YIndexedOperands == {OpIndY, OpAbsY, OpAbsYLower}

ReadsYInstruction(ins) ==
    \/ ins.mnemonic \in {"STY", "TYA", "CPY", "PHY"}
    \/ (ins.mnemonic # NoMnemonic /\ ins.operand \in YIndexedOperands)

KillsYInstruction(ins) ==
    /\ ins.mnemonic \in {"LDY", "PLY", "TAY"}
    /\ ins.operand \notin YIndexedOperands

ConditionalBranches == {"BEQ", "BNE", "BCC", "BCS", "BMI", "BPL", "BVS", "BVC"}

LiveKinds == {"Y IS LIVE", "Y IS LIVE (read+write)"}
DeadKinds == {"Y killed", "RTS", "BRK"}
UnresolvedKinds == {"JMP to unresolved target"}
DepthKinds == {"DEPTH LIMIT"}

(* A "Path" line belongs to the Live line before it; a "JSR" line is a note *)
IsConclusion(r) == r.kind \in LiveKinds \cup DeadKinds \cup UnresolvedKinds \cup DepthKinds

NumConclusions(rs) == Len(SelectSeq(rs, IsConclusion))

IsUnresolved(r) == r.kind \in UnresolvedKinds

NumUnresolved(rs) == Len(SelectSeq(rs, IsUnresolved))

DefinedLabels == {instructions[i].label : i \in 1..Len(instructions)} \ {None}

(* The last position that defines label l *)
LastDefinition(l) ==
    CHOOSE i \in 0..(Len(instructions) - 1) :
        /\ instructions[i + 1].label = l
        /\ \A j \in (i + 1)..(Len(instructions) - 1) : instructions[j + 1].label # l

StartInRange == start_idx < Len(instructions)
StartIns == instructions[start_idx + 1]

(* The loop is about to expand the head of the queue: it is in range, not yet
   visited and within the depth limit *)
HeadIdx == Head(queue)[1]
HeadPath == Head(queue)[2]
HeadIns == instructions[HeadIdx + 1]
ExpandingHead ==
    /\ pc = "loop"
    /\ queue # <<>>
    /\ HeadIdx < Len(instructions)
    /\ HeadIdx \notin visited
    /\ Len(HeadPath) <= max_depth

StepOf(ins) == <<ins.line_num, ins.mnemonic, ins.operand>>

(* A jump or branch whose target is indirect, missing or not a defined label *)
TransferMnemonics == ConditionalBranches \cup {"JMP", "BRA"}
UnresolvedTransfer(ins) ==
    /\ ins.mnemonic \in TransferMnemonics
    /\ ins.operand \notin YIndexedOperands
    /\ ins.operand \notin DefinedLabels

ResolvedTransfer(ins) ==
    /\ ins.mnemonic \in TransferMnemonics
    /\ ins.operand \in DefinedLabels

----------------------------------------------------------------------------
(* C1: under FairSpec every trace terminates: whatever the instruction
   sequence, label index and start position, backward branches and jumps
   included, the work-list eventually becomes empty and the result list is
   returned. *)
C1_Terminates == <>(pc = "done")

(* C1 witness: a finished trace that went round a cycle: it expanded a jump or
   branch whose resolved target is at or before it and was expanded too. *)
C1_Witness ==
    /\ pc = "done"
    /\ \E i \in visited :
          /\ ResolvedTransfer(instructions[i + 1])
          /\ LastDefinition(instructions[i + 1].operand) <= i
          /\ LastDefinition(instructions[i + 1].operand) \in visited

(* C2, as claimed: every loop iteration that expands an instruction and
   enqueues no successor appends exactly one conclusion to results. *)
C2_EndedBranchConcludes ==
    [][ (ExpandingHead /\ Len(queue') < Len(queue))
            => NumConclusions(results') = NumConclusions(results) + 1 ]_vars

(* C3: when the start instruction reads Y (STY, TYA, CPY, PHY, or a Y-indexed
   operand), nothing but the start position is ever visited or enqueued, and
   the finished trace holds exactly the Live line of that instruction with its
   one-step path. *)
C3_ReadAtStartIsLive ==
    (StartInRange /\ ReadsYInstruction(StartIns)) =>
        /\ visited \subseteq {start_idx}
        /\ \A k \in 1..Len(queue) : queue[k] = <<start_idx, <<>>>>
        /\ pc = "done" =>
              /\ Len(results) = 2
              /\ results[1].kind \in LiveKinds
              /\ results[1].line = StartIns.line_num
              /\ results[1].mnemonic = StartIns.mnemonic
              /\ results[2] = [kind |-> "Path", path |-> <<StepOf(StartIns)>>]
              /\ visited = {start_idx}

(* C3 witness: a finished trace that started at a Y-indexed load followed by
   another record. *)
C3_Witness ==
    /\ pc = "done"
    /\ start_idx + 1 < Len(instructions)
    /\ StartIns.mnemonic = "LDA"
    /\ StartIns.operand \in YIndexedOperands
    /\ Len(results) = 2
    /\ results[1].kind = "Y IS LIVE"

(* C4, as claimed: a trace that starts at INY or DEY emits Live for that
   instruction and visits nothing else. *)
C4_IncDecAtStartIsLive ==
    (pc = "done" /\ StartInRange /\ StartIns.mnemonic \in {"INY", "DEY"}) =>
        /\ Len(results) >= 1
        /\ results[1].kind \in LiveKinds
        /\ results[1].line = StartIns.line_num
        /\ visited = {start_idx}

(* C5: when the start instruction kills Y (LDY, PLY, TAY without a Y-indexed
   operand), nothing but the start position is ever visited or enqueued, and
   the finished trace holds exactly one line, the Dead conclusion of that
   instruction. *)
C5_KillAtStartIsDead ==
    (StartInRange /\ KillsYInstruction(StartIns)) =>
        /\ visited \subseteq {start_idx}
        /\ \A k \in 1..Len(queue) : queue[k] = <<start_idx, <<>>>>
        /\ pc = "done" =>
              /\ Len(results) = 1
              /\ results[1].kind = "Y killed"
              /\ results[1].line = StartIns.line_num
              /\ results[1].mnemonic = StartIns.mnemonic
              /\ visited = {start_idx}

(* C5 witness: a finished trace that started at a TAY followed by another
   record. *)
C5_Witness ==
    /\ pc = "done"
    /\ start_idx + 1 < Len(instructions)
    /\ StartIns.mnemonic = "TAY"
    /\ results = <<[kind |-> "Y killed", mnemonic |-> "TAY", operand |-> <<>>,
                    line |-> StartIns.line_num]>>

StartIsResolvedConditional ==
    /\ StartInRange
    /\ StartIns.mnemonic \in ConditionalBranches
    /\ StartIns.operand \in DefinedLabels

FallThrough == start_idx + 1
Taken == LastDefinition(StartIns.operand)

(* C6, as claimed: a finished trace that started at a conditional branch with a
   resolved target holds at least two conclusions. *)
C6_TwoConclusions ==
    (pc = "done" /\ StartIsResolvedConditional) => NumConclusions(results) >= 2

(* A side of the starting branch has been dealt with: expanded, cut by the
   depth guard at its one-step path, or past the last record *)
SideAnalysed(p) ==
    \/ p >= Len(instructions)
    \/ p \in visited
    \/ /\ max_depth = 0
       /\ \E k \in 1..Len(results) :
             results[k] = [kind |-> "DEPTH LIMIT", path |-> <<StepOf(StartIns)>>]

(* C6, amended: a finished trace that started at a conditional branch with a
   resolved target has dealt with both sides: the fall-through position and
   the taken target have each been expanded, cut by the depth guard, or lie
   past the last record. *)
C6_BothSidesAnalysed ==
    (pc = "done" /\ StartIsResolvedConditional) =>
        /\ SideAnalysed(FallThrough)
        /\ SideAnalysed(Taken)

(* C6 witness: a finished trace from a resolved conditional branch whose two
   sides are different positions, both expanded, with two conclusions. *)
C6_Witness ==
    /\ pc = "done"
    /\ StartIsResolvedConditional
    /\ FallThrough # Taken
    /\ FallThrough \in visited
    /\ Taken \in visited
    /\ NumConclusions(results) >= 2

(* C7, as claimed: expanding a JMP, BRA or conditional branch whose target is
   indirect or not in the label index appends exactly one Unresolved
   conclusion. *)
C7_UnresolvedIsReported ==
    [][ (ExpandingHead /\ UnresolvedTransfer(HeadIns))
            => NumUnresolved(results') = NumUnresolved(results) + 1 ]_vars

(* C8: expanding a JSR (one that does not read Y through a Y-indexed operand)
   appends no conclusion and enqueues exactly the next position with the path
   extended by the JSR step, behind the items already queued. *)
C8_CallContinues ==
    [][ (ExpandingHead /\ HeadIns.mnemonic = "JSR"
                       /\ HeadIns.operand \notin YIndexedOperands)
            => /\ queue' = Append(Tail(queue),
                                  <<HeadIdx + 1, Append(HeadPath, StepOf(HeadIns))>>)
               /\ NumConclusions(results') = NumConclusions(results)
               /\ visited' = visited \cup {HeadIdx} ]_vars

(* C8 witness: the latest iteration expanded a JSR that is followed by another
   record, and its return point is now the last item of the queue. *)
C8_Witness ==
    /\ last.how = "expanded"
    /\ instructions[last.idx + 1].mnemonic = "JSR"
    /\ last.idx + 1 < Len(instructions)
    /\ queue # <<>>
    /\ queue[Len(queue)] =
          <<last.idx + 1, Append(last.path, StepOf(instructions[last.idx + 1]))>>

----------------------------------------------------------------------------
(* Vocabulary of the driver's properties *)

(* The requests for label g *)
Requests(g) == {r \in 1..Len(targets) : targets[r] = g}

(* The requested labels are single characters: operand op contains g when
   one of its characters is g's *)
Mentions(op, g) == \E k \in 1..Len(op) : <<op[k]>> = g

Positions == 0..(Len(instructions) - 1)

CountLines(line) == Cardinality({k \in 1..Len(output) : output[k] = line})

(* The traces main started for request r at reference site (-1: the routine's
   own entry) *)
CallsOf(r, site) ==
    {k \in 1..Len(calls) : calls[k].request = r /\ calls[k].site = site}

CallsAt(site) == {k \in 1..Len(calls) : calls[k].site = site}

(* The times the reference of mnemonic m at position i to g was reported as a
   branch reference *)
Reported(m, g, i) ==
    {k \in 1..(Len(output) - 1) :
        /\ output[k] = [kind |-> "reference", call_type |-> m, target |-> g,
                        line |-> instructions[i + 1].line_num]
        /\ output[k + 1] = [kind |-> "Branch reference", call_type |-> m]}

NoFault == mpc # "KeyError" /\ pc # "IndexError"

(* Request r has been dealt with: an error line and no trace for a label that
   no record defines; otherwise one trace from the return point of every JSR
   whose operand contains the label, and one trace from the label itself *)
RequestProcessed(r) ==
    LET g == targets[r]
    IN IF g \notin DefinedLabels
       THEN /\ CountLines([kind |-> "ERROR: Label not found", target |-> g])
                  = Cardinality(Requests(g))
            /\ \A k \in 1..Len(calls) : calls[k].request # r
       ELSE /\ CountLines([kind |-> "ERROR: Label not found", target |-> g]) = 0
            /\ \A i \in Positions :
                  (instructions[i + 1].mnemonic = "JSR"
                       /\ Mentions(instructions[i + 1].operand, g))
                     => /\ Cardinality(CallsOf(r, i)) = 1
                        /\ \A k \in CallsOf(r, i) : calls[k].start = i + 1
            /\ Cardinality(CallsOf(r, -1)) = 1
            /\ \A k \in CallsOf(r, -1) : calls[k].start = LastDefinition(g)
            /\ CountLines([kind |-> "Tracing WITHIN", target |-> g])
                  = Cardinality(Requests(g))

(* C9: under FairSpecMain main never faults, it runs to its end, and at its
   end every request has been dealt with: a requested label that is absent
   from the label index has its error line and no trace, and every other
   request, before or after it, has all its call-site traces and its
   within-routine trace. *)
C9_UnknownLabelIsNotFatal ==
    /\ [](NoFault /\ (mpc = "done" => \A r \in 1..Len(targets) : RequestProcessed(r)))
    /\ <>(mpc = "done")

(* C9 witness: main has ended on a batch where an absent label stands before
   a defined one, which has had a call-site trace and its within-routine
   trace. *)
C9_Witness ==
    /\ mpc = "done"
    /\ \E r \in 1..Len(targets) :
          /\ targets[r] \notin DefinedLabels
          /\ \E q \in 1..Len(targets) :
                /\ q > r
                /\ targets[q] \in DefinedLabels
                /\ CallsOf(q, -1) # {}
                /\ \E i \in Positions : CallsOf(q, i) # {}

(* Every call-site trace main has started so far is for a JSR whose operand
   contains the requested label and starts right after it *)
CallSiteTracesOnlyAfterJsr ==
    \A k \in 1..Len(calls) :
        calls[k].site >= 0 =>
            /\ instructions[calls[k].site + 1].mnemonic = "JSR"
            /\ Mentions(instructions[calls[k].site + 1].operand, targets[calls[k].request])
            /\ calls[k].start = calls[k].site + 1

(* At the end of main every JSR whose operand contains a requested, defined
   label has had exactly one trace per request, from the position after it *)
EveryCallSiteTraced ==
    \A r \in 1..Len(targets) : \A i \in Positions :
        (/\ targets[r] \in DefinedLabels
         /\ instructions[i + 1].mnemonic = "JSR"
         /\ Mentions(instructions[i + 1].operand, targets[r]))
        => /\ Cardinality(CallsOf(r, i)) = 1
           /\ \A k \in CallsOf(r, i) : calls[k].start = i + 1

(* C10, as claimed: every JSR whose operand contains the requested label gets
   exactly one trace, from the position after it; every branch or JMP whose
   operand contains it is reported, once per request, and never traced. *)
C10_TransferSitesReported ==
    /\ CallSiteTracesOnlyAfterJsr
    /\ mpc = "done" =>
          /\ EveryCallSiteTraced
          /\ \A g \in DefinedLabels : \A i \in Positions :
                (/\ Requests(g) # {}
                 /\ instructions[i + 1].mnemonic \in TransferMnemonics
                 /\ Mentions(instructions[i + 1].operand, g))
                => /\ Cardinality(Reported(instructions[i + 1].mnemonic, g, i))
                         = Cardinality(Requests(g))
                   /\ CallsAt(i) = {}

(* C10, amended: every JSR whose operand contains the requested label gets
   exactly one trace, from the position after it; a BEQ whose operand contains
   it is passed over, neither reported nor traced; every other branch or JMP
   whose operand contains it is reported, once per request, and never traced. *)
C10_TransferSitesReportedButBeq ==
    /\ CallSiteTracesOnlyAfterJsr
    /\ mpc = "done" =>
          /\ EveryCallSiteTraced
          /\ \A g \in DefinedLabels : \A i \in Positions :
                (/\ Requests(g) # {}
                 /\ instructions[i + 1].mnemonic \in TransferMnemonics
                 /\ Mentions(instructions[i + 1].operand, g))
                => /\ Cardinality(Reported(instructions[i + 1].mnemonic, g, i))
                         = IF instructions[i + 1].mnemonic = "BEQ"
                           THEN 0
                           ELSE Cardinality(Requests(g))
                   /\ CallsAt(i) = {}

(* C10 witness: main has ended on a file where the requested label is
   referenced by a JSR that was traced from the record after it, by a BEQ that
   was passed over and by a JMP that was reported. *)
C10_Witness ==
    /\ mpc = "done"
    /\ \E r \in 1..Len(targets) : \E i, j, k \in Positions :
          /\ targets[r] \in DefinedLabels
          /\ instructions[i + 1].mnemonic = "JSR"
          /\ instructions[j + 1].mnemonic = "BEQ"
          /\ instructions[k + 1].mnemonic = "JMP"
          /\ Mentions(instructions[i + 1].operand, targets[r])
          /\ Mentions(instructions[j + 1].operand, targets[r])
          /\ Mentions(instructions[k + 1].operand, targets[r])
          /\ i + 1 < Len(instructions)
          /\ CallsOf(r, i) # {}
          /\ Reported("BEQ", targets[r], j) = {}
          /\ Reported("JMP", targets[r], k) # {}

----------------------------------------------------------------------------
(* Properties of the result list *)

(* The entries one loop iteration appended to results *)
NewEntries == SubSeq(results', Len(results) + 1, Len(results'))

LoopIteration == pc = "loop" /\ queue # <<>>

ResultsGrow == Len(results') >= Len(results) /\ SubSeq(results', 1, Len(results)) = results

(* A "Path" line comes right after the Live line it belongs to *)
PathFollowsLive(k) == k > 1 /\ NewEntries[k].kind = "Path" /\ NewEntries[k - 1].kind \in LiveKinds

ExpandingCall ==
    /\ ExpandingHead
    /\ HeadIns.mnemonic = "JSR"
    /\ HeadIns.operand \notin YIndexedOperands

(* C11, as claimed: every entry appended to results is a conclusion of one of
   the four kinds (a Live one with its path line), and an iteration that
   enqueues a successor appends nothing. *)
C11_OnlyConclusions ==
    [][ LoopIteration =>
            /\ ResultsGrow
            /\ \A k \in 1..Len(NewEntries) :
                  IsConclusion(NewEntries[k]) \/ PathFollowsLive(k)
            /\ Len(queue') >= Len(queue) => results' = results ]_vars

(* C11, amended: every entry appended to results is a conclusion of one of the
   four kinds (a Live one with its path line) or the note of an expanded JSR;
   an iteration that enqueues a successor appends nothing, except that
   expanding a JSR appends its note and nothing else. *)
C11_ConclusionsAndCallNotes ==
    [][ LoopIteration =>
            /\ ResultsGrow
            /\ \A k \in 1..Len(NewEntries) :
                  \/ IsConclusion(NewEntries[k])
                  \/ PathFollowsLive(k)
                  \/ (ExpandingCall /\ NewEntries[k].kind = "JSR")
            /\ Len(queue') >= Len(queue) =>
                  IF ExpandingCall
                  THEN /\ Len(NewEntries) = 1
                       /\ NewEntries[1] = [kind |-> "JSR", operand |-> HeadIns.operand,
                                           line |-> HeadIns.line_num]
                  ELSE results' = results ]_vars

(* C11 witness: a finished trace whose results hold the note of a JSR and,
   after it, the conclusion the branch ended with. *)
C11_Witness ==
    /\ pc = "done"
    /\ \E k \in 1..Len(results) : \E j \in (k + 1)..Len(results) :
          /\ results[k].kind = "JSR"
          /\ IsConclusion(results[j])

----------------------------------------------------------------------------
(* C12: repeated traces *)

ReturnedCalls == {k \in DOMAIN calls : calls[k].returned}

(* C12: two traces of the same start position over the same instruction
   sequence and label index, with the same depth limit, return identical
   lists *)
C12_SameStartSameResults ==
    \A j, k \in ReturnedCalls :
        (calls[j].start = calls[k].start /\ calls[j].max_depth = calls[k].max_depth)
            => calls[j].results = calls[k].results

(* Two returned traces of one start position, each with a conclusion *)
C12_Witness ==
    \E j, k \in ReturnedCalls :
        /\ j < k
        /\ calls[j].start = calls[k].start
        /\ \E n \in DOMAIN calls[j].results : IsConclusion(calls[j].results[n])
        /\ \E n \in DOMAIN calls[k].results : IsConclusion(calls[k].results[n])

----------------------------------------------------------------------------
(* C13: order of discovery *)

(* The items a loop iteration put on the queue *)
Enqueued == SubSeq(queue', Len(queue), Len(queue'))

(* The head leaves at the front, new items join at the back *)
FirstInFirstOut ==
    /\ Len(queue') >= Len(queue) - 1
    /\ SubSeq(queue', 1, Len(queue) - 1) = Tail(queue)

ExpandingResolvedConditional ==
    /\ ExpandingHead
    /\ HeadIns.mnemonic \in ConditionalBranches
    /\ HeadIns.operand \in DefinedLabels

(* The six lines  LDA #1 / BEQ skip / LDY #5 / .skip / STY $10 / RTS *)
SkipScenario ==
    << [line_num |-> 1, label |-> <<"None">>, mnemonic |-> "LDA", operand |-> <<"#", "1">>],
       [line_num |-> 2, label |-> <<"None">>, mnemonic |-> "BEQ",
        operand |-> <<"s", "k", "i", "p">>],
       [line_num |-> 3, label |-> <<"None">>, mnemonic |-> "LDY", operand |-> <<"#", "5">>],
       [line_num |-> 4, label |-> <<"s", "k", "i", "p">>, mnemonic |-> "None",
        operand |-> <<"None">>],
       [line_num |-> 5, label |-> <<"None">>, mnemonic |-> "STY",
        operand |-> <<"$", "1", "0">>],
       [line_num |-> 6, label |-> <<"None">>, mnemonic |-> "RTS", operand |-> <<>>] >>

SkipScenarioTraced ==
    /\ instructions = SkipScenario
    /\ start_idx = 0
    /\ max_depth = DefaultMaxDepth
    /\ pc = "done"

(* C13: the work-list is first-in first-out and results only grows at its
   end, so conclusions stand in the order their branches were dequeued; a
   resolved conditional branch enqueues its fall-through position and then
   its target, both with the branch's step added to the path; and the six
   lines LDA #1 / BEQ skip / LDY #5 / .skip / STY $10 / RTS traced from the
   first line give exactly two conclusions, the Dead one of LDY at line 3 and
   then the Live one of STY at line 5. *)
C13_FifoOrder ==
    /\ [][ LoopIteration =>
             /\ FirstInFirstOut
             /\ ResultsGrow
             /\ ExpandingResolvedConditional =>
                    Enqueued = << <<HeadIdx + 1, Append(HeadPath, StepOf(HeadIns))>>,
                                  <<LastDefinition(HeadIns.operand),
                                    Append(HeadPath, StepOf(HeadIns))>> >> ]_vars
    /\ [](SkipScenarioTraced =>
             LET cs == SelectSeq(results, IsConclusion)
             IN /\ Len(cs) = 2
                /\ cs[1].kind \in DeadKinds /\ cs[1].line = 3
                /\ cs[2].kind \in LiveKinds /\ cs[2].line = 5)

(* The six lines traced to the end, the fall-through side concluded before
   the taken side *)
C13_Witness ==
    /\ SkipScenarioTraced
    /\ visited = {0, 1, 2, 3, 4}
    /\ NumConclusions(results) = 2

----------------------------------------------------------------------------
(* C14: the depth guard *)

HeadTooLong == Len(HeadPath) > max_depth

(* One DepthExceeded line for the head, nothing expanded, nothing enqueued,
   the rest of the work-list kept and the loop still running *)
CutByDepthGuard ==
    /\ Len(results') = Len(results) + 1
    /\ SubSeq(results', 1, Len(results)) = results
    /\ results'[Len(results')].kind \in DepthKinds
    /\ results'[Len(results')].path = HeadPath
    /\ visited' = visited
    /\ queue' = Tail(queue)
    /\ pc' = "loop"

(* C14, as claimed: whenever the dequeued item is at a not-yet-visited
   position and its path is longer than the depth limit, the iteration emits
   exactly one DepthExceeded conclusion, expands nothing, enqueues nothing,
   and the loop goes on with the remaining items. *)
C14_DepthGuardCuts ==
    [][ (LoopIteration /\ HeadIdx \notin visited /\ HeadTooLong)
            => CutByDepthGuard ]_vars

(* C14, amended: the same for a not-yet-visited position inside the
   instruction sequence; an item past the last record is dropped before the
   depth guard is reached. *)
C14_DepthGuardCutsInRange ==
    [][ (LoopIteration /\ HeadIdx \notin visited /\ HeadIdx < Len(instructions)
            /\ HeadTooLong)
            => CutByDepthGuard ]_vars

(* A branch was cut by the depth guard while other items were waiting, and
   one of those went on to a conclusion *)
C14_Witness ==
    /\ pc = "done"
    /\ \E k \in DOMAIN results :
          /\ results[k].kind \in DepthKinds
          /\ \E j \in (k + 1)..Len(results) : IsConclusion(results[j])

----------------------------------------------------------------------------
(* C15: labels defined more than once *)

DefinitionsOf(l) == {i \in 0..(Len(instructions) - 1) : instructions[i + 1].label = l}

MultiplyDefined == {l \in DefinedLabels : Cardinality(DefinitionsOf(l)) > 1}

(* C15: a label defined by more than one record is mapped by the index to the
   position of its last defining record, and the expansion of a JMP, BRA or
   conditional branch to such a label enqueues, as its last item, that last
   definition with the instruction's step added to the path. *)
C15_LastDefinitionWins ==
    /\ [](\A l \in MultiplyDefined :
             l \in DOMAIN label_idx /\ label_idx[l] = LastDefinition(l))
    /\ [][ (ExpandingHead /\ ResolvedTransfer(HeadIns)
             /\ HeadIns.operand \in MultiplyDefined)
            => /\ Len(queue') >= Len(queue)
               /\ queue'[Len(queue')] = <<LastDefinition(HeadIns.operand),
                                          Append(HeadPath, StepOf(HeadIns))>> ]_vars

(* A finished trace that expanded a jump or branch to a label defined twice
   and went on at the last definition, never entering the earlier one *)
C15_Witness ==
    /\ pc = "done"
    /\ \E i \in visited :
          /\ ResolvedTransfer(instructions[i + 1])
          /\ instructions[i + 1].operand \in MultiplyDefined
          /\ LastDefinition(instructions[i + 1].operand) \in visited
          /\ \E d \in DefinitionsOf(instructions[i + 1].operand) : d \notin visited

----------------------------------------------------------------------------
(* C16: the positions a trace expands *)

(* Increment and decrement of Y need its old value: classified as a read *)
IncDecMnemonics == {"INY", "DEY"}

IsReader(ins) == ReadsYInstruction(ins) \/ ins.mnemonic \in IncDecMnemonics

EndsBranch(ins) ==
    \/ IsReader(ins)
    \/ KillsYInstruction(ins)
    \/ ins.mnemonic \in {"RTS", "RTI", "BRK"}

TargetOf(ins) ==
    IF ins.operand \in DefinedLabels THEN {LastDefinition(ins.operand)} ELSE {}

(* The successor relation: next position for label-only records, neutral
   instructions and JSR; the resolved target for JMP and BRA; both for a
   conditional branch; none for readers, killers, RTS, RTI and BRK *)
Successors(i) ==
    LET ins == instructions[i + 1]
    IN IF ins.mnemonic = "None" THEN {i + 1}
       ELSE IF EndsBranch(ins) THEN {}
       ELSE IF ins.mnemonic \in {"JMP", "BRA"} THEN TargetOf(ins)
       ELSE IF ins.mnemonic \in ConditionalBranches THEN {i + 1} \cup TargetOf(ins)
       ELSE {i + 1}

InSequence(S) == S \cap (0..(Len(instructions) - 1))

RECURSIVE ReachableFrom(_)
ReachableFrom(S) ==
    LET T == S \cup InSequence(UNION {Successors(i) : i \in S})
    IN IF T = S THEN S ELSE ReachableFrom(T)

Reachable == ReachableFrom(InSequence({start_idx}))

NoDepthExceeded == \A k \in DOMAIN results : results[k].kind \notin DepthKinds

LiveEmittedFor(i) ==
    \E k \in DOMAIN results :
        results[k].kind \in LiveKinds /\ results[k].line = instructions[i + 1].line_num

(* C16, as claimed: a finished trace with no DepthExceeded conclusion has
   expanded exactly the positions reachable from the start through the
   successor relation, each in one iteration that found it not yet visited,
   and holds a Live conclusion for a reading instruction exactly when that
   instruction is reachable. *)
C16_ExpandsExactlyReachable ==
    /\ []((pc = "done" /\ NoDepthExceeded) =>
             /\ visited = Reachable
             /\ \A i \in InSequence(0..Len(instructions)) :
                    IsReader(instructions[i + 1]) => (LiveEmittedFor(i) <=> i \in Reachable))
    /\ [][ (LoopIteration /\ visited' # visited)
              => (HeadIdx \notin visited /\ visited' = visited \cup {HeadIdx}) ]_vars

----------------------------------------------------------------------------
(* C17: positions stay inside the instruction sequence *)

HeadPastEnd == HeadIdx >= Len(instructions)

(* The head is taken off and nothing else changes *)
Discarded ==
    /\ queue' = Tail(queue)
    /\ results' = results
    /\ visited' = visited
    /\ pc' = "loop"

(* C17: every visited position p satisfies 0 <= p < len(instructions) and the
   trace never faults on an index outside the sequence; a dequeued position
   at or past the end, be it the start or a successor, is discarded with
   nothing else changed. *)
C17_VisitedInBounds ==
    /\ [](/\ \A p \in visited : 0 <= p /\ p < Len(instructions)
          /\ pc # "IndexError")
    /\ [][ (LoopIteration /\ HeadPastEnd) => Discarded ]_vars

(* A finished trace whose last record, a JSR, a neutral instruction or a
   label line, was expanded and whose successor past the end was discarded *)
C17_Witness ==
    /\ pc = "done"
    /\ Len(instructions) > 0
    /\ (Len(instructions) - 1) \in visited
    /\ instructions[Len(instructions)].mnemonic \in {"JSR", "LDA", "None"}
    /\ last.how = "dropped"
    /\ last.idx = Len(instructions)

----------------------------------------------------------------------------
(* C18: path lengths *)

CarriesMnemonic(p) == p < Len(instructions) /\ instructions[p + 1].mnemonic # "None"

VisitedInstructions == {p \in visited : CarriesMnemonic(p)}

InstructionRecords == {p \in 0..(Len(instructions) - 1) : CarriesMnemonic(p)}

(* C18: the path of every work-list item has at most as many steps as there
   are visited positions carrying a mnemonic; and a trace over a sequence
   with at most max_depth instruction records holds no DepthExceeded
   conclusion. *)
C18_PathWithinVisited ==
    /\ \A k \in DOMAIN queue : Len(queue[k][2]) <= Cardinality(VisitedInstructions)
    /\ (Cardinality(InstructionRecords) <= max_depth => NoDepthExceeded)

(* A sequence with exactly max_depth instruction records, all of them on the
   path of an item that was then expanded rather than cut *)
C18_Witness ==
    /\ max_depth >= 1
    /\ Cardinality(InstructionRecords) = max_depth
    /\ last.how = "expanded"
    /\ Len(last.path) = max_depth
====
